---- MODULE Spec2Model ----
(***************************************************************************)
(* A model of incidr.py: the Net class (parsing of an address or CIDR      *)
(* block, the netmask AND, the four textual representations) and the       *)
(* report loop of the command line.                                        *)
(*                                                                         *)
(* Text is a sequence of one-character strings.  A 32-bit unsigned value   *)
(* is kept as a pair <<hi, lo>> of 16-bit halves (value = hi * 65536 + lo) *)
(* because the integers of the model checker are 32-bit signed; a hi of    *)
(* 65536 stands for "2^32 or more".                                        *)
(***************************************************************************)
EXTENDS Integers, Sequences, FiniteSets, TLC

(***************************************************************************)
(* Characters and numbers                                                  *)
(***************************************************************************)
DecChars == <<"0", "1", "2", "3", "4", "5", "6", "7", "8", "9">>
HexLower == DecChars \o <<"a", "b", "c", "d", "e", "f">>
HexUpper == DecChars \o <<"A", "B", "C", "D", "E", "F">>

Half == 256 * 256

IsDigit(c) == \E k \in 1..10 : DecChars[k] = c
IsHexChar(c) == \E k \in 1..16 : HexLower[k] = c \/ HexUpper[k] = c
IsSpace(c) == c = " "
HexVal(c) == (CHOOSE k \in 1..16 : HexLower[k] = c \/ HexUpper[k] = c) - 1

\* Is c a digit of the given base (8, 10 or 16)?
IsDigitOf(c, base) == IsHexChar(c) /\ HexVal(c) < base

Zero == <<0, 0>>
TooBig(v) == v[1] >= Half

\* v * base + d on the two halves, sticking at "2^32 or more".
MulAdd(v, base, d) ==
    LET t == v[2] * base + d
        h == v[1] * base + (t \div Half)
    IN  <<IF h >= Half THEN Half ELSE h, t % Half>>

\* Quotient and remainder of v by b.
DivMod(v, b) ==
    LET t == (v[1] % b) * Half + v[2]
    IN  [q |-> <<v[1] \div b, t \div b>>, r |-> t % b]

\* The digits of s (all of them digits of the base) read as a number,
\* starting from acc; the reading stops at "2^32 or more".
RECURSIVE ReadDigits(_, _, _)
ReadDigits(s, base, acc) ==
    IF s = <<>> THEN acc
    ELSE LET next == MulAdd(acc, base, HexVal(Head(s)))
         IN  IF TooBig(next) THEN next ELSE ReadDigits(Tail(s), base, next)

\* The digits of v in the given base, most significant first, no padding.
RECURSIVE Digits(_, _)
Digits(v, base) ==
    IF v = Zero THEN <<>>
    ELSE LET dm == DivMod(v, base) IN Append(Digits(dm.q, base), HexLower[dm.r + 1])

\* c * n for a one-character string c.
Repeat(c, n) == [k \in 1..n |-> c]

\* str(n) for a non-negative integer.
PyStr(v) == IF v = Zero THEN <<"0">> ELSE Digits(v, 10)

\* '{:>w}', '{:0wd}', '{:0wx}', '{:0wb}': pad on the left up to width w.
PadLeft(s, c, w) == Repeat(c, w - Len(s)) \o s
FormatRight3(s) == PadLeft(s, " ", 3)
\* Mutant: '{:09d}' in the place of '{:010d}'.
Format010d_width9(v) == PadLeft(PyStr(v), "0", 9)
Format010d(v) == PadLeft(PyStr(v), "0", 10)
Format08x(v) == PadLeft(IF v = Zero THEN <<"0">> ELSE Digits(v, 16), "0", 8)
Format08b(v) == PadLeft(IF v = Zero THEN <<"0">> ELSE Digits(v, 2), "0", 8)

\* str.strip() of blanks, as int() does before it reads its argument.
RECURSIVE StripLeft(_)
StripLeft(s) == IF s # <<>> /\ IsSpace(Head(s)) THEN StripLeft(Tail(s)) ELSE s
RECURSIVE StripRight(_)
StripRight(s) ==
    IF s # <<>> /\ IsSpace(s[Len(s)]) THEN StripRight(SubSeq(s, 1, Len(s) - 1)) ELSE s

AllDigits(s) == \A k \in 1..Len(s) : IsDigit(s[k])

\* int(s): ok is FALSE where Python raises ValueError.
PyInt(s) ==
    LET t == StripRight(StripLeft(s))
    IN  IF t # <<>> /\ AllDigits(t)
        THEN [ok |-> TRUE, val |-> ReadDigits(t, 10, Zero)]
        ELSE [ok |-> FALSE, val |-> Zero]

\* str.count, str.split and str.join for a one-character separator.
Count(s, c) == Cardinality({k \in 1..Len(s) : s[k] = c})

RECURSIVE Split(_, _)
Split(s, c) ==
    IF \A k \in 1..Len(s) : s[k] # c THEN <<s>>
    ELSE LET p == CHOOSE k \in 1..Len(s) : s[k] = c /\ \A m \in 1..(k - 1) : s[m] # c
         IN  <<SubSeq(s, 1, p - 1)>> \o Split(SubSeq(s, p + 1, Len(s)), c)

RECURSIVE Join(_, _)
Join(sep, parts) ==
    IF parts = <<>> THEN <<>>
    ELSE IF Len(parts) = 1 THEN parts[1]
    ELSE parts[1] \o sep \o Join(sep, Tail(parts))

\* Bitwise AND of two bytes.
RECURSIVE BitAnd(_, _)
BitAnd(x, y) ==
    IF x = 0 \/ y = 0 THEN 0
    ELSE 2 * BitAnd(x \div 2, y \div 2) + (IF x % 2 = 1 /\ y % 2 = 1 THEN 1 ELSE 0)

(***************************************************************************)
(* socket.inet_aton and socket.inet_ntoa                                   *)
(***************************************************************************)
\* strtoul(cp, &endp, 0) from position pos: 0x/0X starts a hexadecimal
\* number when a hexadecimal digit follows, a leading 0 an octal one.
StrToUL(s, pos) ==
    LET isHex == /\ s[pos] = "0"
                 /\ pos + 2 <= Len(s)
                 /\ s[pos + 1] \in {"x", "X"}
                 /\ IsHexChar(s[pos + 2])
        base  == IF isHex THEN 16 ELSE IF s[pos] = "0" THEN 8 ELSE 10
        start == IF isHex THEN pos + 2 ELSE pos
        stop  == IF \A k \in start..Len(s) : IsDigitOf(s[k], base)
                 THEN Len(s) + 1
                 ELSE CHOOSE k \in start..Len(s) :
                        /\ ~IsDigitOf(s[k], base)
                        /\ \A m \in start..(k - 1) : IsDigitOf(s[m], base)
    IN  [val |-> ReadDigits(SubSeq(s, start, stop - 1), base, Zero), end |-> stop]

\* The largest last part after 0, 1, 2 or 3 dotted parts, as <<hi, lo>>.
MaxLast == <<<<65535, 65535>>, <<255, 65535>>, <<0, 65535>>, <<0, 255>>>>

WideLeq(v, w) == v[1] < w[1] \/ (v[1] = w[1] /\ v[2] <= w[2])

\* The four bytes of a value, most significant first.
BytesOf(v) == <<v[1] \div 256, v[1] % 256, v[2] \div 256, v[2] % 256>>

NoRaw == [ok |-> FALSE, raw |-> <<>>]

\* The parsing loop of inet_aton: bytes holds the parts read so far.
RECURSIVE AtonFrom(_, _, _)
AtonFrom(s, pos, bytes) ==
    IF pos > Len(s) \/ ~IsDigit(s[pos]) THEN NoRaw
    ELSE LET n == StrToUL(s, pos)
         IN  IF TooBig(n.val) THEN NoRaw
             ELSE IF n.end <= Len(s) /\ s[n.end] = "."
             THEN IF Len(bytes) >= 3 \/ ~WideLeq(n.val, <<0, 255>>) THEN NoRaw
                  ELSE AtonFrom(s, n.end + 1, Append(bytes, n.val[2]))
             ELSE IF n.end <= Len(s) /\ ~IsSpace(s[n.end]) THEN NoRaw
             ELSE IF ~WideLeq(n.val, MaxLast[Len(bytes) + 1]) THEN NoRaw
             ELSE [ok  |-> TRUE,
                   raw |-> bytes \o SubSeq(BytesOf(n.val), Len(bytes) + 1, 4)]

\* socket.inet_aton: ok is FALSE where it raises OSError.
inet_aton(s) == AtonFrom(s, 1, <<>>)

\* socket.inet_ntoa: the plain dotted quad of four bytes.
inet_ntoa(raw) ==
    Join(<<".">>, <<PyStr(<<0, raw[1]>>), PyStr(<<0, raw[2]>>),
                    PyStr(<<0, raw[3]>>), PyStr(<<0, raw[4]>>)>>)

(***************************************************************************)
(* bits2int and class Net                                                  *)
(***************************************************************************)
NoText == <<>>

\* bits2int(mask): exc is "ValueError" where it raises (msg and arg are
\* the two halves of its message), str is the result otherwise.
bits2int(mask) ==
    LET m == PyInt(mask)
    IN  IF ~m.ok
        THEN [exc |-> "ValueError", msg |-> "Invalid netmask, non-numeric: ",
              arg |-> mask, str |-> NoText]
        ELSE IF m.val[1] = 0 /\ 1 <= m.val[2] /\ m.val[2] <= 32
        THEN [exc |-> "none", msg |-> "", arg |-> NoText,
              str |-> PyStr(ReadDigits(Repeat("1", m.val[2]) \o Repeat("0", 32 - m.val[2]),
                                       2, Zero))]
        ELSE [exc |-> "ValueError",
              msg |-> "Invalid netmask, outside of 1 <= m <= 32 range: ",
              arg |-> PyStr(m.val), str |-> NoText]

all_formats == <<"quad", "bin", "dec", "hex">>

\* A raised exception in the place of a Net: str(e) is msg followed by arg.
Raised(exc, msg, arg) ==
    [exc |-> exc, msg |-> msg, arg |-> arg, orig |-> NoText, raw |-> <<>>,
     formats |-> [f \in {"quad", "bin", "dec", "hex"} |->
                     [as_string |-> NoText, show |-> FALSE]],
     mask |-> <<>>, masked |-> <<>>]

\* re.search(r'\d', s) != None and re.search(r'\D', s) == None
LooksDecimal(s) == Len(s) <= 10 /\ (\E k \in 1..Len(s) : IsDigit(s[k])) /\ AllDigits(s)
\* re.search(r'(?i)[^0-9a-f]', s) == None
LooksHex(s) == Len(s) <= 8 /\ \A k \in 1..Len(s) : IsHexChar(s[k])

\* Mutant: the count of "/" is not checked, the text is split at the first.
BaseAddress_unchecked(orig) ==
    IF Count(orig, "/") > 0
    THEN [exc |-> "none", msg |-> "", arg |-> NoText, base |-> Split(orig, "/")[1]]
    ELSE [exc |-> "none", msg |-> "", arg |-> NoText, base |-> orig]

\* What __init__ settles before inet_aton: the text handed to inet_aton,
\* or the exception raised on the way (lines 46-78, without the mask).
BaseAddress(orig) ==
    IF Count(orig, "/") > 0
    THEN IF Count(orig, "/") > 1
         THEN [exc |-> "ValueError", msg |-> "Invalid CIDR block (multiple \"/\"es): ",
               arg |-> orig, base |-> NoText]
         ELSE [exc |-> "none", msg |-> "", arg |-> NoText, base |-> Split(orig, "/")[1]]
    ELSE IF Count(orig, ".") = 0
    THEN IF LooksDecimal(orig)
         THEN IF WideLeq(PyInt(orig).val, <<0, 32>>)
              THEN LET b == bits2int(orig)
                   IN  [exc |-> b.exc, msg |-> b.msg, arg |-> b.arg, base |-> b.str]
              ELSE [exc |-> "none", msg |-> "", arg |-> NoText, base |-> orig]
         ELSE IF LooksHex(orig)
         THEN [exc |-> "none", msg |-> "", arg |-> NoText, base |-> <<"0", "x">> \o orig]
         ELSE [exc |-> "ValueError", msg |-> "Invalid CIDR block (invalid numeric value): ",
               arg |-> orig, base |-> NoText]
    ELSE [exc |-> "none", msg |-> "", arg |-> NoText, base |-> orig]

\* The four representations of four raw bytes (lines 89-95).
Representations(raw, show) ==
    LET o    == Split(inet_ntoa(raw), ".")
        quad == Join(<<".">>, <<FormatRight3(o[1]), FormatRight3(o[2]),
                                FormatRight3(o[3]), FormatRight3(o[4])>>)
        dec  == Format010d(<<raw[1] * 256 + raw[2], raw[3] * 256 + raw[4]>>)
        hex  == Format08x(PyInt(dec).val)
        q    == Split(quad, ".")
        bin  == Join(<<" ">>, <<Format08b(PyInt(q[1]).val), Format08b(PyInt(q[2]).val),
                                Format08b(PyInt(q[3]).val), Format08b(PyInt(q[4]).val)>>)
    IN  [quad |-> [as_string |-> quad, show |-> show[1]],
         bin  |-> [as_string |-> bin,  show |-> show[2]],
         dec  |-> [as_string |-> dec,  show |-> show[3]],
         hex  |-> [as_string |-> hex,  show |-> show[4]]]

\* Mutant: | in the place of &.
AndBytes_or(selfRaw, otherRaw) ==
    <<selfRaw[1] + otherRaw[1] - BitAnd(selfRaw[1], otherRaw[1]),
      selfRaw[2] + otherRaw[2] - BitAnd(selfRaw[2], otherRaw[2]),
      selfRaw[3] + otherRaw[3] - BitAnd(selfRaw[3], otherRaw[3]),
      selfRaw[4] + otherRaw[4] - BitAnd(selfRaw[4], otherRaw[4])>>

\* The bytes of self & other (lines 104-108).
AndBytes(selfRaw, otherRaw) ==
    <<BitAnd(selfRaw[1], otherRaw[1]), BitAnd(selfRaw[2], otherRaw[2]),
      BitAnd(selfRaw[3], otherRaw[3]), BitAnd(selfRaw[4], otherRaw[4])>>

\* Net(net, show_quad, show_bin, show_dec, show_hex), show being the four
\* flags in the order of all_formats.  The result has exc = "none" and the
\* fields of the object, or exc names the exception the constructor raises.
\* mask and masked are <<>> for None and a one-element tuple otherwise.
RECURSIVE Net(_, _)
\* Mutant: the result keeps the mask it was cut with.
Net_and_keepmask(self, other) ==
    [Net(inet_ntoa(AndBytes(self.raw, other.raw)),
         <<self.formats[all_formats[1]].show, self.formats[all_formats[2]].show,
           self.formats[all_formats[3]].show, self.formats[all_formats[4]].show>>)
        EXCEPT !.mask = <<other>>]

\* Mutant: the display formats of self are not handed on.
Net_and_defaults(self, other) ==
    Net(inet_ntoa(AndBytes(self.raw, other.raw)), <<TRUE, TRUE, TRUE, TRUE>>)

\* self & other (lines 99-112).
Net_and(self, other) ==
    Net(inet_ntoa(AndBytes(self.raw, other.raw)),
        <<self.formats[all_formats[1]].show, self.formats[all_formats[2]].show,
          self.formats[all_formats[3]].show, self.formats[all_formats[4]].show>>)

Net(net, show) ==
    LET b == BaseAddress(net)
        oneSlash == Count(net, "/") = 1
        mask == IF oneSlash THEN Net(Split(net, "/")[2], show) ELSE Raised("none", "", NoText)
    IN  IF b.exc # "none" THEN Raised(b.exc, b.msg, b.arg)
        ELSE IF oneSlash /\ mask.exc # "none" THEN mask
        ELSE LET a == inet_aton(b.base)
             IN  IF ~a.ok
                 THEN Raised("OSError", "illegal IP address string passed to inet_aton", NoText)
                 ELSE LET self == [exc |-> "none", msg |-> "", arg |-> NoText,
                                   orig |-> net, raw |-> a.raw,
                                   formats |-> Representations(a.raw, show),
                                   mask |-> IF oneSlash THEN <<mask>> ELSE <<>>,
                                   masked |-> <<>>]
                      IN  IF self.mask # <<>>
                          THEN LET masked == Net_and(self, self.mask[1])
                               IN  IF masked.exc # "none" THEN masked
                                   ELSE [self EXCEPT !.masked = <<masked>>]
                          ELSE self

\* The strings of the formats that are shown, in the order of fmts.
RECURSIVE Shown(_, _)
Shown(self, fmts) ==
    IF fmts = <<>> THEN <<>>
    ELSE (IF self.formats[Head(fmts)].show
          THEN <<self.formats[Head(fmts)].as_string>> ELSE <<>>) \o Shown(self, Tail(fmts))

\* Mutant: one blank on each side.
Separator_narrow == <<" ", "<", "=", ">", " ">>
Separator == <<" ", " ", "<", "=", ">", " ", " ">>

\* str(net) (lines 114-131).
RECURSIVE Net_str(_)
Net_str(self) ==
    LET line  == Join(Separator, Shown(self, all_formats))
        first == IF self.mask # <<>>
                 THEN <<" ", " ", " ">> \o line \o <<"\n", " ", "&", " ">> \o Net_str(self.mask[1])
                 ELSE line
    IN  IF self.masked # <<>>
        THEN first \o <<"\n", " ", "=", " ">> \o Net_str(self.masked[1])
        ELSE first

(***************************************************************************)
(* Inputs                                                                  *)
(***************************************************************************)
\* Bounds of the model.
MaxLeadingZeros == 2
MaxAddresses == 2
MaxMasks == 2

Octets == {0, 9, 170, 255}
LenOctets == {9, 170, 255}
MaskLengths == 1..32
Flags == {<<q, b, d, h>> : q \in BOOLEAN, b \in BOOLEAN, d \in BOOLEAN, h \in BOOLEAN}

\* The text a.b.c.d of four octets, and the decimal text of a small number.
QuadText(o) == inet_ntoa(o)
NumText(n) == PyStr(<<0, n>>)

\* Values of all-digit tokens, as <<hi, lo>>.
DigitValues ==
    {<<0, n>> : n \in 0..34} \cup
    {<<0, 255>>, <<0, 256>>, <<0, 1000>>, <<0, 65535>>, <<1, 0>>, <<256, 0>>,
     <<32768, 0>>, <<65535, 65534>>, <<65535, 65535>>}

\* Slash-free texts that are no plain dotted quad and no all-digit token.
OtherTokens ==
    {<<"f", "f">>, <<"F", "F">>, <<"0", "a">>, <<"a", "b", "c", "d", "e", "f", "1", "2">>,
     <<"a", "b", "c", "d", "e", "f", "a", "b", "c">>, <<"z", "z">>, <<>>,
     <<"0", "x", "1", "0">>, <<"1", ".", "2">>, <<"1", ".", "2", ".", "3">>,
     <<"9", "9", "9", ".", "1", ".", "1", ".", "1">>,
     <<"1", ".", "2", ".", "3", ".", "4", ".", "5">>,
     <<"0", "1", "0", ".", "1", ".", "1", ".", "1">>,
     <<"1", ".", "2", ".", "3", ".", "4", " ">>,
     <<"4", "2", "9", "4", "9", "6", "7", "2", "9", "6">>,
     <<"9", "9", "9", "9", "9", "9", "9", "9", "9", "9">>,
     <<"1", "2", "3", "4", "5", "6", "7", "8", "9", "0", "1">>}

\* Bases and masks of the address/mask texts.
BaseTokens ==
    {<<"f", "f">>, <<"2", "5", "6">>, <<"2", "4">>, <<"0">>, <<"z", "z">>, <<"0", "x", "1", "0">>,
     <<"1", ".", "2", ".", "3", ".", "4">>, <<"9", "9", "9", ".", "1", ".", "1", ".", "1">>,
     <<>>}
MaskTokens ==
    {<<"2", "4">>, <<"8">>, <<"2", "5", "5", ".", "2", "5", "5", ".", "0", ".", "0">>,
     <<"f", "f", "f", "f", "0", "0", "0", "0">>, <<"0">>, <<"3", "3">>, <<"z", "z">>, <<>>}

\* An input is tagged with the way it was built: text is the string given
\* to the program, o the octets, n the number and z the count of leading
\* zeros it was built from (where it was).
Input(kind, text, o, n, z, base, mask) ==
    [kind |-> kind, text |-> text, o |-> o, n |-> n, z |-> z, base |-> base, mask |-> mask]

QuadInputs ==
    {Input("quad", QuadText(o), o, Zero, 0, NoText, NoText) :
        o \in Octets \X Octets \X Octets \X Octets}
QuadLenInputs ==
    {Input("quad/len", QuadText(x[1]) \o <<"/">> \o NumText(x[2]), x[1], <<0, x[2]>>, 0,
           QuadText(x[1]), NumText(x[2])) :
        x \in (LenOctets \X LenOctets \X LenOctets \X LenOctets) \X MaskLengths}
DigitInputs ==
    {Input("digits", Repeat("0", x[2]) \o PyStr(x[1]), <<>>, x[1], x[2], NoText, NoText) :
        x \in {y \in DigitValues \X (0..MaxLeadingZeros) : Len(PyStr(y[1])) + y[2] <= 10}}
OtherInputs ==
    {Input("other", t, <<>>, Zero, 0, NoText, NoText) : t \in OtherTokens}
SlashInputs ==
    {Input("base/mask", x[1] \o <<"/">> \o x[2], <<>>, Zero, 0, x[1], x[2]) :
        x \in BaseTokens \X MaskTokens}
SlashesInputs ==
    {Input("slashes", x[1] \o <<"/">> \o x[2] \o <<"/">> \o x[3], <<>>, Zero, 0, x[1], x[2]) :
        x \in BaseTokens \X {<<"2", "5">>, <<"z", "z">>, <<>>} \X {<<"2", "6">>, <<"1">>, <<>>}}

NetInputs ==
    QuadInputs \cup QuadLenInputs \cup DigitInputs \cup OtherInputs \cup SlashInputs
        \cup SlashesInputs

NoInput == Input("none", NoText, <<>>, Zero, 0, NoText, NoText)

\* The command lines: the positional arguments, the --mask values and the
\* four format switches.
CliAddresses ==
    {<<"1", ".", "2", ".", "3", ".", "4">>, <<"9", "9", "9", ".", "1", ".", "1", ".", "1">>,
     <<"1", "0", ".", "0", ".", "0", ".", "1", "/", "8">>,
     <<"1", ".", "2", ".", "3", ".", "4", "/", "2", "5", "/", "2", "6">>}
CliMasks == {<<"2", "4">>, <<"0">>}

SeqsUpTo(S, lo, hi) == UNION {[1..n -> S] : n \in lo..hi}

(***************************************************************************)
(* The program                                                             *)
(***************************************************************************)
VARIABLES
    pc,        \* where the program is
    given,     \* the tagged input of a direct use of Net
    args,      \* the parsed command line
    formats,   \* the format flags handed to Net
    i,         \* position of the loop over args.addresses
    cidrs,     \* the address/mask texts of the current address
    j,         \* position of the loop over cidrs
    net,       \* the text handed to Net
    this_net,  \* the Net that was built, or the exception raised
    stdout     \* what was printed: one element for each print()

vars == <<pc, given, args, formats, i, cidrs, j, net, this_net, stdout>>

NoNet == Raised("none", "", NoText)
NoArgs == [addresses |-> <<>>, mask |-> <<>>, quad |-> FALSE, binary |-> FALSE,
           decimal |-> FALSE, hexadecimal |-> FALSE]

\* Net(net, *formats): an empty formats leaves the four defaults, all True.
NetWith(text, fmts) == Net(text, IF fmts = <<>> THEN <<TRUE, TRUE, TRUE, TRUE>> ELSE fmts)

\* str(e) of a raised exception; the fixed part of a message is one element.
ErrorText(e) == <<e.msg>> \o e.arg

---------------------------------------------------------------------------
\* A direct use of the class: Net(text, show_quad, show_bin, show_dec, show_hex)
\* and then str() of the result.
InitNet ==
    /\ pc = "new"
    /\ given \in NetInputs
    /\ formats \in Flags
    /\ net = given.text
    /\ args = NoArgs
    /\ i = 0 /\ j = 0 /\ cidrs = <<>>
    /\ this_net = NoNet
    /\ stdout = <<>>

Construct ==
    /\ pc = "new"
    /\ this_net' = Net(net, formats)
    /\ pc' = IF this_net'.exc = "none" THEN "built" ELSE "raised"
    /\ UNCHANGED <<given, args, formats, i, cidrs, j, net, stdout>>

Str ==
    /\ pc = "built"
    /\ stdout' = Append(stdout, Net_str(this_net))
    /\ pc' = "shown"
    /\ UNCHANGED <<given, args, formats, i, cidrs, j, net, this_net>>

NextNet == Construct \/ Str

SpecNet == InitNet /\ [][NextNet]_vars

---------------------------------------------------------------------------
\* The command line program (lines 150-208), from the parsed arguments on.
Init ==
    /\ pc = "main"
    /\ given = NoInput
    /\ args \in [addresses : SeqsUpTo(CliAddresses, 1, MaxAddresses),
                 mask : SeqsUpTo(CliMasks, 0, MaxMasks),
                 quad : BOOLEAN, binary : BOOLEAN, decimal : BOOLEAN, hexadecimal : BOOLEAN]
    /\ formats = <<>>
    /\ i = 1 /\ j = 1 /\ cidrs = <<>>
    /\ net = NoText
    /\ this_net = NoNet
    /\ stdout = <<>>

\* Lines 178-180.
SetFormats ==
    /\ pc = "main"
    /\ formats' = IF args.quad \/ args.binary \/ args.decimal \/ args.hexadecimal
                  THEN <<args.quad, args.binary, args.decimal, args.hexadecimal>>
                  ELSE <<>>
    /\ pc' = "for cidr"
    /\ UNCHANGED <<given, args, i, cidrs, j, net, this_net, stdout>>

\* Mutant: only the first --mask is used.
Cidrs_first(cidr, masks) ==
    IF Count(cidr, "/") = 0 /\ masks # <<>> THEN <<cidr \o <<"/">> \o masks[1]>> ELSE <<cidr>>

\* The texts of one positional argument (lines 184-193).
Cidrs(cidr, masks) ==
    IF Count(cidr, "/") = 0 /\ masks # <<>>
    THEN [k \in 1..Len(masks) |-> cidr \o <<"/">> \o masks[k]]
    ELSE <<cidr>>

\* One turn of "for cidr in args.addresses" up to the inner loop.
ForCidr ==
    /\ pc = "for cidr"
    /\ i <= Len(args.addresses)
    /\ cidrs' = Cidrs(args.addresses[i], args.mask)
    /\ j' = 1
    /\ pc' = "for net"
    /\ UNCHANGED <<given, args, formats, i, net, this_net, stdout>>

\* Mutant: the line of "=" is as long as the whole header.
Report_header(text, built) ==
    <<text \o <<" ", ":">>, Repeat("=", Len(text) + 2)>> \o
    (IF built.exc # "none"
     THEN <<<<"Error: ">> \o ErrorText(built), <<"Skipping">>, NoText>>
     ELSE <<Net_str(built), NoText>>)

\* What one turn of "for net in cidrs" prints (lines 196-208).
Report(text, built) ==
    <<text \o <<" ", ":">>, Repeat("=", Len(text))>> \o
    (IF built.exc # "none"
     THEN <<<<"Error: ">> \o ErrorText(built), <<"Skipping">>, NoText>>
     ELSE <<Net_str(built), NoText>>)

ForNet ==
    /\ pc = "for net"
    /\ j <= Len(cidrs)
    /\ net' = cidrs[j]
    /\ this_net' = NetWith(net', formats)
    /\ stdout' = stdout \o Report(net', this_net')
    /\ j' = j + 1
    /\ UNCHANGED <<pc, given, args, formats, i, cidrs>>

\* The inner loop is over: on to the next positional argument.
EndForNet ==
    /\ pc = "for net"
    /\ j > Len(cidrs)
    /\ i' = i + 1
    /\ pc' = "for cidr"
    /\ UNCHANGED <<given, args, formats, cidrs, j, net, this_net, stdout>>

\* The outer loop is over: the program ends.
Exit ==
    /\ pc = "for cidr"
    /\ i > Len(args.addresses)
    /\ pc' = "done"
    /\ UNCHANGED <<given, args, formats, i, cidrs, j, net, this_net, stdout>>

Next == SetFormats \/ ForCidr \/ ForNet \/ EndForNet \/ Exit

Spec == Init /\ [][Next]_vars

\* Both uses of the code: the class on its own and the command line.
InitAll == InitNet \/ Init
NextAll == NextNet \/ Next
SpecAll == InitAll /\ [][NextAll]_vars

(***************************************************************************)
(* Properties                                                              *)
(***************************************************************************)
\* The value of four bytes as <<hi, lo>>, and 2^32 - 2^(32 - n) as <<hi, lo>>.
ValueOf(raw) == <<raw[1] * 256 + raw[2], raw[3] * 256 + raw[4]>>
MaskValue(n) ==
    IF n <= 16 THEN <<Half - 2 ^ (16 - n), 0>> ELSE <<Half - 1, Half - 2 ^ (32 - n)>>
Bit(v, b) == (v \div 2 ^ b) % 2
Built == pc \in {"built", "shown"}
Slashes(text) == Cardinality({k \in 1..Len(text) : text[k] = "/"})

\* A digit string read modulo m, and four octets read modulo m: two values
\* below 2^32 are equal when they agree modulo each of the three primes.
Primes == {65521, 65519, 65497}
RECURSIVE ReadMod(_, _, _, _)
ReadMod(s, base, m, acc) ==
    IF s = <<>> THEN acc
    ELSE LET d == CHOOSE k \in 0..15 : HexLower[k + 1] = Head(s)
         IN  ReadMod(Tail(s), base, m, (acc * base + d) % m)
OctetsMod(o, m) == ((((((o[1] % m) * 256 + o[2]) % m) * 256 + o[3]) % m) * 256 + o[4]) % m

\* The line a value is to show: the shown strings in the order quad, binary,
\* decimal, hex with "  <=>  " between them.
ExpectedLine(n, fl) ==
    LET parts == (IF fl[1] THEN <<n.formats.quad.as_string>> ELSE <<>>) \o
                 (IF fl[2] THEN <<n.formats.bin.as_string>> ELSE <<>>) \o
                 (IF fl[3] THEN <<n.formats.dec.as_string>> ELSE <<>>) \o
                 (IF fl[4] THEN <<n.formats.hex.as_string>> ELSE <<>>)
        sep   == <<" ", " ", "<", "=", ">", " ", " ">>
    IN  IF parts = <<>> THEN <<>>
        ELSE parts[1] \o
             (IF Len(parts) >= 2 THEN sep \o parts[2] ELSE <<>>) \o
             (IF Len(parts) >= 3 THEN sep \o parts[3] ELSE <<>>) \o
             (IF Len(parts) >= 4 THEN sep \o parts[4] ELSE <<>>)

\* The text a value with the flags fl is to render: one row, or three rows
\* with the prefixes "   ", " & " and " = ".
ExpectedText(n, fl) ==
    IF n.mask = <<>> THEN ExpectedLine(n, fl)
    ELSE <<" ", " ", " ">> \o ExpectedLine(n, fl) \o
         <<"\n", " ", "&", " ">> \o ExpectedLine(n.mask[1], fl) \o
         <<"\n", " ", "=", " ">> \o ExpectedLine(n.masked[1], fl)

\* C1: a dotted quad X with a mask length N in 1..32 is always built; its
\* mask has the value 2^32 - 2^(32-N) and every bit of every byte of the
\* masked result is the AND of that bit of X and of the mask.
C1_MaskedResult ==
    (given.kind = "quad/len" /\ pc # "new") =>
        /\ this_net.exc = "none"
        /\ this_net.raw = given.o
        /\ Len(this_net.mask) = 1
        /\ Len(this_net.masked) = 1
        /\ ValueOf(this_net.mask[1].raw) = MaskValue(given.n[2])
        /\ \A k \in 1..4 :
              /\ this_net.masked[1].raw[k] \in 0..255
              /\ \A b \in 0..7 :
                    Bit(this_net.masked[1].raw[k], b)
                        = Bit(given.o[k], b) * Bit(this_net.mask[1].raw[k], b)

C1_Witness ==
    /\ pc = "built"
    /\ given.kind = "quad/len"
    /\ given.o = <<170, 255, 9, 255>>
    /\ given.n = <<0, 13>>
    /\ this_net.mask[1].raw = <<255, 248, 0, 0>>
    /\ this_net.masked[1].raw = <<170, 248, 0, 0>>

\* C2: an all-digit token of at most 10 characters with the value V is
\* always built; its value is 2^32 - 2^(32-V) when V is in 1..32 and V
\* itself otherwise (V = 0 or 32 < V <= 2^32 - 1), leading zeros or not.
C2_DigitToken ==
    (given.kind = "digits" /\ pc # "new") =>
        /\ this_net.exc = "none"
        /\ ValueOf(this_net.raw) =
              IF given.n[1] = 0 /\ 1 <= given.n[2] /\ given.n[2] <= 32
              THEN MaskValue(given.n[2]) ELSE given.n

\* C3: with a valid mask m, the text b/m is built exactly when the text b
\* is built, and then with the same four bytes.
C3_BaseAsAlone ==
    (given.kind = "base/mask" /\ pc # "new" /\ Net(given.mask, formats).exc = "none") =>
        LET alone == Net(given.base, formats)
        IN  /\ (this_net.exc = "none") = (alone.exc = "none")
            /\ this_net.exc = "none" => this_net.raw = alone.raw

\* C4: for a dotted quad a.b.c.d the raw bytes are (a, b, c, d), the decimal
\* string is 10 decimal digits and the hex string 8 lowercase hex digits,
\* both of the value a*256^3 + b*256^2 + c*256 + d, and int() of the decimal
\* string gives that value back.
C4_QuadValue ==
    (given.kind = "quad" /\ pc # "new") =>
        /\ this_net.exc = "none"
        /\ this_net.raw = given.o
        /\ LET dec == this_net.formats.dec.as_string
               hex == this_net.formats.hex.as_string
           IN  /\ Len(dec) = 10
               /\ \A k \in 1..Len(dec) : \E d \in 1..10 : DecChars[d] = dec[k]
               /\ \A m \in Primes : ReadMod(dec, 10, m, 0) = OctetsMod(given.o, m)
               /\ Len(hex) = 8
               /\ \A k \in 1..Len(hex) : \E d \in 1..16 : HexLower[d] = hex[k]
               /\ \A m \in Primes : ReadMod(hex, 16, m, 0) = OctetsMod(given.o, m)
               /\ PyInt(dec).ok
               /\ PyInt(dec).val = ValueOf(given.o)

C4_Witness ==
    /\ pc = "built"
    /\ given.kind = "quad"
    /\ given.o = <<9, 0, 170, 255>>
    /\ this_net.formats.dec.as_string = <<"0", "1", "5", "1", "0", "3", "8", "7", "1", "9">>
    /\ this_net.formats.hex.as_string = <<"0", "9", "0", "0", "a", "a", "f", "f">>

\* C5: the program prints one report for each text the arguments stand
\* for, in their order (an argument without "/" stands for argument/mask
\* for every --mask in turn, or for itself without --mask; one with "/"
\* stands for itself); each report is the header, the line of "=" and then
\* either the rendered value or the Error and Skipping lines, whatever the
\* reports before it were.
C5_Texts(cidr, masks) ==
    IF Slashes(cidr) = 0 /\ Len(masks) > 0
    THEN [k \in 1..Len(masks) |-> cidr \o <<"/">> \o masks[k]]
    ELSE <<cidr>>
RECURSIVE C5_AllTexts(_, _)
C5_AllTexts(addresses, masks) ==
    IF addresses = <<>> THEN <<>>
    ELSE C5_Texts(Head(addresses), masks) \o C5_AllTexts(Tail(addresses), masks)
C5_Flags ==
    IF args.quad \/ args.binary \/ args.decimal \/ args.hexadecimal
    THEN <<args.quad, args.binary, args.decimal, args.hexadecimal>>
    ELSE <<TRUE, TRUE, TRUE, TRUE>>
C5_ReportOf(text) ==
    LET n == Net(text, C5_Flags)
    IN  <<text \o <<" ", ":">>, <<"=">>>> \o
        (IF n.exc = "none" THEN <<Net_str(n), <<>>>>
         ELSE <<<<"Error: ", n.msg>> \o n.arg, <<"Skipping">>, <<>>>>)
RECURSIVE C5_Reports(_)
C5_Reports(texts) ==
    IF texts = <<>> THEN <<>> ELSE C5_ReportOf(Head(texts)) \o C5_Reports(Tail(texts))
\* A line of "=" of any length stands for the line of "=".
C5_Line(line) == IF line # <<>> /\ (\A k \in 1..Len(line) : line[k] = "=") THEN <<"=">> ELSE line
C5_OneReportEach ==
    pc = "done" =>
        [k \in 1..Len(stdout) |-> C5_Line(stdout[k])]
            = C5_Reports(C5_AllTexts(args.addresses, args.mask))

C5_Witness ==
    /\ pc = "done"
    /\ args.addresses = <<<<"1", ".", "2", ".", "3", ".", "4", "/", "2", "5", "/", "2", "6">>,
                          <<"1", ".", "2", ".", "3", ".", "4">>>>
    /\ args.mask = <<<<"0">>, <<"2", "4">>>>
    /\ Len(stdout) = 14
    /\ stdout[3][1] = "Error: "
    /\ stdout[8][1] = "Error: "
    /\ stdout[13][1] = " "

\* The header and the line of "=" of the report that was printed last.
LastHeader == stdout[Len(stdout) - (IF this_net.exc = "none" THEN 3 ELSE 4)]
LastRule == stdout[Len(stdout) - (IF this_net.exc = "none" THEN 2 ELSE 3)]
Reported == pc = "for net" /\ j > 1

\* C6 as stated: the line of "=" is as long as the header line, the text
\* followed by " :".
C6_RuleAsLongAsHeader ==
    Reported =>
        /\ LastHeader = net \o <<" ", ":">>
        /\ \A k \in 1..Len(LastRule) : LastRule[k] = "="
        /\ Len(LastRule) = Len(LastHeader)

\* C6 as amended: the line of "=" is as long as the text itself, two
\* characters shorter than the header line, the text followed by " :".
C6_RuleAsLongAsText ==
    Reported =>
        /\ LastHeader = net \o <<" ", ":">>
        /\ \A k \in 1..Len(LastRule) : LastRule[k] = "="
        /\ Len(LastRule) = Len(net)
        /\ Len(LastRule) = Len(LastHeader) - 2

C6_Witness ==
    /\ Reported
    /\ net = <<"1", "0", ".", "0", ".", "0", ".", "1", "/", "8">>
    /\ LastHeader = <<"1", "0", ".", "0", ".", "0", ".", "1", "/", "8", " ", ":">>
    /\ LastRule = <<"=", "=", "=", "=", "=", "=", "=", "=", "=", "=">>

\* C7: a text with more than one "/" raises the ValueError of the multiple
\* "/"es, whatever its parts are, and no mask or masked result is built.
C7_MultipleSlashes ==
    (given.kind = "slashes" /\ pc # "new") =>
        /\ pc = "raised"
        /\ this_net.exc = "ValueError"
        /\ this_net.msg = "Invalid CIDR block (multiple \"/\"es): "
        /\ this_net.arg = given.text
        /\ this_net.mask = <<>>
        /\ this_net.masked = <<>>

C7_Witness ==
    /\ pc = "raised"
    /\ given.kind = "slashes"
    /\ given.text = <<"9", "9", "9", ".", "1", ".", "1", ".", "1", "/", "z", "z", "/", "1">>
    /\ this_net.exc = "ValueError"

\* C8: a built value has a masked result exactly when it has a mask, which
\* is exactly when its text holds one "/"; the mask and the masked result
\* have no mask and no masked result, and the rendered text has one row, or
\* three with a mask.
C8_MaskAndMasked ==
    Built =>
        /\ (this_net.masked # <<>>) = (this_net.mask # <<>>)
        /\ (this_net.mask # <<>>) = (Slashes(net) = 1)
        /\ Len(this_net.mask) <= 1
        /\ Len(this_net.masked) <= 1
        /\ \A k \in 1..Len(this_net.mask) :
              this_net.mask[k].mask = <<>> /\ this_net.mask[k].masked = <<>>
        /\ \A k \in 1..Len(this_net.masked) :
              this_net.masked[k].mask = <<>> /\ this_net.masked[k].masked = <<>>
        /\ pc = "shown" =>
              Cardinality({k \in 1..Len(stdout[1]) : stdout[1][k] = "\n"})
                  = IF this_net.mask # <<>> THEN 2 ELSE 0

C8_Witness ==
    /\ pc = "shown"
    /\ given.kind = "base/mask"
    /\ given.base = <<"0", "x", "1", "0">>
    /\ given.mask = <<"f", "f", "f", "f", "0", "0", "0", "0">>
    /\ this_net.mask # <<>>
    /\ this_net.masked # <<>>

C10_Rows(text) ==
    LET nl == {k \in 1..Len(text) : text[k] = "\n"}
        p1 == CHOOSE k \in nl : \A m \in nl : k <= m
        p2 == CHOOSE k \in nl : \A m \in nl : k >= m
    IN  <<SubSeq(text, 1, p1 - 1), SubSeq(text, p1 + 1, p2 - 1), SubSeq(text, p2 + 1, Len(text))>>
====
